---------------------------- MODULE Spec2Model ----------------------------
(***************************************************************************)
(* A model of OilDocumentProcessor (src/oil_document_.py): the OCR         *)
(* ingestion loop, the page segmenter (chunk_documents), the extraction    *)
(* loop (parse_chunks_with_ollama with extract_json) and the output        *)
(* partitioner (split_pdf_by_chunks).                                      *)
(*                                                                         *)
(* Strings are sequences of one-character strings, so that strip, split,   *)
(* join, lower, replace, endswith and the lexicographic order of file      *)
(* names are computed the way Python computes them.                        *)
(***************************************************************************)
EXTENDS Integers, Sequences, FiniteSets, TLC

VARIABLES
    pc,             \* which step of main() runs next
    image_dir,      \* the file names os.listdir(self.image_dir) returns
    page_files,     \* perform_ocr: the sorted .png file names
    ocr_raw,        \* what the OCR engine returns for the k-th page file
    ocr_results,    \* perform_ocr: the list being built
    ocr_json,       \* the file ocr_pages.json
    pages,          \* chunk_documents: the sorted page records
    i,              \* chunk_documents: the cursor (0-based index)
    chunk_id,       \* chunk_documents: the counter
    chunks,         \* chunk_documents: the list being built
    chunks_json,    \* the file chunks.json
    parse_k,        \* parse_chunks_with_ollama: chunks examined so far
    parsed_chunks,  \* parse_chunks_with_ollama: the list being built
    failed_log,     \* the file failed_chunks_log.txt, one entry per write
    trace,          \* history: oracle calls and sleeps, in the order they happen
    parsed_json,    \* the file parsed_chunks.json
    split_k,        \* split_pdf_by_chunks: records handled so far
    out_files,      \* the directory split_pdfs: file name -> content
    save_log        \* history: the outcome of each new_doc.save, in order

vars == <<pc, image_dir, page_files, ocr_raw, ocr_results, ocr_json, pages, i, chunk_id,
          chunks, chunks_json, parse_k, parsed_chunks, failed_log, trace,
          parsed_json, split_k, out_files, save_log>>

ocrVars   == <<page_files, ocr_results, ocr_json>>
chunkVars == <<pages, i, chunk_id, chunks, chunks_json>>
parseVars == <<parse_k, parsed_chunks, failed_log, trace, parsed_json>>
splitVars == <<split_k, out_files, save_log>>
inputVars == <<image_dir, ocr_raw>>

-----------------------------------------------------------------------------
(* Bounds of the model.                                                    *)

\* Spec: the scanned document has 0..MaxPages pages.
MaxPages == 42
\* The OCR texts of consecutive page files repeat with this period (in Spec,
\* those of the pages before the trailing range).
TextPeriod == 3
\* SpecAny: at most this many files of FilePool are in the image directory.
MaxFiles == 4
\* SpecParse: at most this many pages of ParsePagePool are in the directory.
MaxParseFiles == 3
\* SpecSplit: at most this many records are in parsed_chunks.json.
MaxRecords == 2

-----------------------------------------------------------------------------
(* Strings.                                                                *)

Min(a, b) == IF a < b THEN a ELSE b

Rep(c, n) == [k \in 1..n |-> c]

\* The characters the model uses, in code-point order.
CharOrder ==
    <<"\n", " ", "\"", "*", "-", ".", "/", "0", "1", "2", "3", "4", "5", "6",
      "7", "8", "9", ":", "<", ">", "?", "A", "B", "I", "_", "a", "b", "c",
      "d", "e", "f", "g", "i", "k", "l", "n", "o", "p", "t", "u", "v", "w",
      "x", "|">>

CharRank(c) == CHOOSE k \in 1..Len(CharOrder) : CharOrder[k] = c

\* s < t as Python compares two str values.
RECURSIVE StrLess(_, _)
StrLess(s, t) ==
    IF t = <<>> THEN FALSE
    ELSE IF s = <<>> THEN TRUE
    ELSE IF Head(s) = Head(t) THEN StrLess(Tail(s), Tail(t))
    ELSE CharRank(Head(s)) < CharRank(Head(t))

IsSpace(c) == c \in {" ", "\n"}

RECURSIVE LStrip(_)
LStrip(s) == IF s # <<>> /\ IsSpace(Head(s)) THEN LStrip(Tail(s)) ELSE s

RECURSIVE RStrip(_)
RStrip(s) ==
    IF s # <<>> /\ IsSpace(s[Len(s)]) THEN RStrip(SubSeq(s, 1, Len(s) - 1)) ELSE s

\* str.strip()
Strip(s) == RStrip(LStrip(s))

\* sep.join(parts)
RECURSIVE Join(_, _)
Join(sep, parts) ==
    IF parts = <<>> THEN <<>>
    ELSE IF Len(parts) = 1 THEN parts[1]
    ELSE parts[1] \o sep \o Join(sep, Tail(parts))

\* s.split(sep) for a one-character sep: the list of segments.
RECURSIVE Split(_, _)
Split(s, sep) ==
    IF \A k \in 1..Len(s) : s[k] # sep THEN <<s>>
    ELSE LET k == CHOOSE j \in 1..Len(s) :
                     s[j] = sep /\ \A m \in 1..(j - 1) : s[m] # sep
         IN  <<SubSeq(s, 1, k - 1)>> \o Split(SubSeq(s, k + 1, Len(s)), sep)

\* s.endswith(suffix)
EndsWith(s, suffix) ==
    /\ Len(s) >= Len(suffix)
    /\ SubSeq(s, Len(s) - Len(suffix) + 1, Len(s)) = suffix

\* s.replace(" ", "_")
ReplaceSpaces(s) == [k \in 1..Len(s) |-> IF s[k] = " " THEN "_" ELSE s[k]]

LowerChar(c) ==
    CASE c = "A" -> "a"
      [] c = "B" -> "b"
      [] c = "I" -> "i"
      [] OTHER   -> c

\* s.lower()
Lower(s) == [k \in 1..Len(s) |-> LowerChar(s[k])]

DigitChars == <<"0", "1", "2", "3", "4", "5", "6", "7", "8", "9">>

\* str(n) for n >= 0
RECURSIVE DecimalOf(_)
DecimalOf(n) ==
    IF n < 10 THEN <<DigitChars[n + 1]>>
    ELSE DecimalOf(n \div 10) \o <<DigitChars[(n % 10) + 1]>>

\* f"{n:03}" for n >= 0
Format03(n) ==
    LET d == DecimalOf(n)
    IN  IF Len(d) < 3 THEN Rep("0", 3 - Len(d)) \o d ELSE d

DigitValue(c) == (CHOOSE k \in 1..10 : DigitChars[k] = c) - 1

RECURSIVE DigitsValue(_)
DigitsValue(s) ==
    IF s = <<>> THEN 0
    ELSE 10 * DigitsValue(SubSeq(s, 1, Len(s) - 1)) + DigitValue(s[Len(s)])

\* int(s) for a decimal literal with an optional sign
ParseInt(s) ==
    IF s # <<>> /\ Head(s) = "-" THEN 0 - DigitsValue(Tail(s)) ELSE DigitsValue(s)

PagePrefix == <<"p", "a", "g", "e", "_">>
PngSuffix  == <<".", "p", "n", "g">>

\* convert_pdf_to_images names the image of the page with index idx.
ImageName(idx) == PagePrefix \o Format03(idx + 1) \o PngSuffix


-----------------------------------------------------------------------------
(* perform_ocr                                                             *)

\* The fixed short-text threshold of perform_ocr and parse_chunks_with_ollama.
ShortTextLimit == 50

\* sorted(names): ascending in Python's str order.
RECURSIVE InsertName(_, _)
InsertName(s, x) ==
    IF s = <<>> THEN <<x>>
    ELSE IF StrLess(x, s[Len(s)])
         THEN Append(InsertName(SubSeq(s, 1, Len(s) - 1), x), s[Len(s)])
         ELSE Append(s, x)

RECURSIVE SortedNames(_)
SortedNames(S) ==
    IF S = {} THEN <<>>
    ELSE LET x == CHOOSE y \in S : TRUE
         IN  InsertName(SortedNames(S \ {x}), x)

\* sorted([f for f in os.listdir(self.image_dir) if f.endswith(".png")])
ListPageFiles(dir) == SortedNames({f \in dir : EndsWith(f, PngSuffix)})

\* int(fname.split("_")[1].split(".")[0])
PageNumOf(fname) == ParseInt(Split(Split(fname, "_")[2], ".")[1])

\* The record perform_ocr appends for one page file.
OcrRecord(fname, raw) ==
    LET text == Strip(raw)
    IN  [page     |-> PageNumOf(fname),
         filename |-> fname,
         text     |-> text,
         is_blank |-> Len(text) < ShortTextLimit]

\* ocr_results = [] and the listing of the image directory.
OcrList ==
    /\ pc = "perform_ocr"
    /\ page_files' = ListPageFiles(image_dir)
    /\ ocr_results' = <<>>
    /\ pc' = "ocr_loop"
    /\ UNCHANGED <<ocr_json, inputVars, chunkVars, parseVars, splitVars>>

\* One iteration of the loop over page_files.
OcrStep ==
    /\ pc = "ocr_loop"
    /\ Len(ocr_results) < Len(page_files)
    /\ LET k == Len(ocr_results) + 1
       IN  ocr_results' = Append(ocr_results, OcrRecord(page_files[k], ocr_raw[k]))
    /\ UNCHANGED <<pc, page_files, ocr_json, inputVars, chunkVars, parseVars, splitVars>>

\* The loop is over: json.dump(ocr_results) to ocr_pages.json.
OcrFinish ==
    /\ pc = "ocr_loop"
    /\ Len(ocr_results) = Len(page_files)
    /\ ocr_json' = ocr_results
    /\ pc' = "chunk_documents"
    /\ UNCHANGED <<page_files, ocr_results, inputVars, chunkVars, parseVars, splitVars>>

-----------------------------------------------------------------------------
(* chunk_documents                                                         *)

\* The last page number of the leading (invoice) range.
InvoiceLastPage == 24
\* The first and last page numbers of the middle (bill of lading) range.
BolFirstPage == 25
BolLastPage == 38
\* The first page number of the trailing (certificate) range.
CertificateFirstPage == 39
\* The number of records an invoice group takes from the cursor.
InvoiceWindow == 3

\* list.sort is stable: r goes after every record whose key is <= its own.
RECURSIVE InsertByPage(_, _)
InsertByPage(s, r) ==
    IF s = <<>> THEN <<r>>
    ELSE IF s[Len(s)].page <= r.page THEN Append(s, r)
    ELSE Append(InsertByPage(SubSeq(s, 1, Len(s) - 1), r), s[Len(s)])

\* sorted(records, key=lambda x: x["page"])
RECURSIVE SortByPage(_)
SortByPage(s) ==
    IF s = <<>> THEN <<>>
    ELSE InsertByPage(SortByPage(SubSeq(s, 1, Len(s) - 1)), s[Len(s)])

\* A loader that rejects a numbering other than 1..N (the code has none).
LoadPagesValidating(records) ==
    LET sorted == SortByPage(records)
    IN  IF \A k \in 1..Len(sorted) : sorted[k].page = k THEN sorted ELSE <<>>

\* pages = sorted(json.load(f), key=lambda x: x["page"])
LoadPages(records) == SortByPage(records)

\* The cursor after an invoice group, had the skipped fourth page been forgotten.
CursorAfterInvoiceOverlapping(cursor) == cursor + 2

\* i += 4
CursorAfterInvoice(cursor) == cursor + 4

\* i += 1 after a bill of lading page
CursorAfterBol(cursor) == cursor + 1

\* i += 2 after a certificate page
CursorAfterCertificate(cursor) == cursor + 2

\* i += 1 after a blank trailing page
CursorAfterBlank(cursor) == cursor + 1

\* A counter that is not advanced.
NextChunkIdStuck(id) == id

\* chunk_id += 1
NextChunkId(id) == id + 1

\* A window cut at the range boundary (the code slices by index only).
InvoiceSliceCutAtBoundary(ps, cursor) ==
    SelectSeq(SubSeq(ps, cursor + 1, Min(cursor + InvoiceWindow, Len(ps))),
              LAMBDA p : p.page <= InvoiceLastPage)

\* pages[i:i+3]
InvoiceSlice(ps, cursor) ==
    SubSeq(ps, cursor + 1, Min(cursor + InvoiceWindow, Len(ps)))

PageNumbers(ps) == [k \in 1..Len(ps) |-> ps[k].page]
PageTexts(ps)   == [k \in 1..Len(ps) |-> ps[k].text]

NewChunk(id, hint, ps) ==
    [chunk_id  |-> id,
     type_hint |-> hint,
     pages     |-> PageNumbers(ps),
     text      |-> Join(<<"\n">>, PageTexts(ps))]

\* Open ocr_pages.json, sort, and set the locals.
ChunkLoad ==
    /\ pc = "chunk_documents"
    /\ pages' = LoadPages(ocr_json)
    /\ chunks' = <<>>
    /\ i' = 0
    /\ chunk_id' = 1
    /\ pc' = "chunk_loop"
    /\ UNCHANGED <<chunks_json, inputVars, ocrVars, parseVars, splitVars>>

InChunkLoop == pc = "chunk_loop" /\ i < Len(pages)

\* if page_num <= 24
ChunkInvoice ==
    /\ InChunkLoop
    /\ pages[i + 1].page <= InvoiceLastPage
    /\ chunks' = Append(chunks, NewChunk(chunk_id, "invoice", InvoiceSlice(pages, i)))
    /\ chunk_id' = NextChunkId(chunk_id)
    /\ i' = CursorAfterInvoice(i)
    /\ UNCHANGED <<pc, pages, chunks_json, inputVars, ocrVars, parseVars, splitVars>>

\* elif 25 <= page_num <= 38
ChunkBol ==
    /\ InChunkLoop
    /\ ~(pages[i + 1].page <= InvoiceLastPage)
    /\ BolFirstPage <= pages[i + 1].page
    /\ pages[i + 1].page <= BolLastPage
    /\ chunks' = Append(chunks, NewChunk(chunk_id, "bol", <<pages[i + 1]>>))
    /\ chunk_id' = NextChunkId(chunk_id)
    /\ i' = CursorAfterBol(i)
    /\ UNCHANGED <<pc, pages, chunks_json, inputVars, ocrVars, parseVars, splitVars>>

\* elif page_num >= 39, if not is_blank
ChunkCertificate ==
    /\ InChunkLoop
    /\ ~(pages[i + 1].page <= InvoiceLastPage)
    /\ ~(BolFirstPage <= pages[i + 1].page /\ pages[i + 1].page <= BolLastPage)
    /\ pages[i + 1].page >= CertificateFirstPage
    /\ ~pages[i + 1].is_blank
    /\ chunks' = Append(chunks, NewChunk(chunk_id, "certificate", <<pages[i + 1]>>))
    /\ chunk_id' = NextChunkId(chunk_id)
    /\ i' = CursorAfterCertificate(i)
    /\ UNCHANGED <<pc, pages, chunks_json, inputVars, ocrVars, parseVars, splitVars>>

\* elif page_num >= 39, else (blank): the page is dropped
ChunkBlank ==
    /\ InChunkLoop
    /\ ~(pages[i + 1].page <= InvoiceLastPage)
    /\ ~(BolFirstPage <= pages[i + 1].page /\ pages[i + 1].page <= BolLastPage)
    /\ pages[i + 1].page >= CertificateFirstPage
    /\ pages[i + 1].is_blank
    /\ i' = CursorAfterBlank(i)
    /\ UNCHANGED <<pc, pages, chunk_id, chunks, chunks_json, inputVars, ocrVars,
                   parseVars, splitVars>>

\* The loop is over: json.dump(chunks) to chunks.json.
ChunkFinish ==
    /\ pc = "chunk_loop"
    /\ ~(i < Len(pages))
    /\ chunks_json' = chunks
    /\ pc' = "parse_chunks_with_ollama"
    /\ UNCHANGED <<pages, i, chunk_id, chunks, inputVars, ocrVars, parseVars, splitVars>>

-----------------------------------------------------------------------------
(* extract_json                                                            *)

\* An oracle response is a sequence of lexical tokens: braces, commas, a
\* "key": "value" member, or any other text.
Tok(kind)      == [t |-> kind, key |-> "", value |-> <<>>]
LBrace         == Tok("{")
RBrace         == Tok("}")
Comma          == Tok(",")
Noise          == Tok("noise")
Member(k, v)   == [t |-> "member", key |-> k, value |-> v]

NoResult == [ok |-> FALSE, obj |-> <<>>]

\* re.search(r'\{.*\}', raw_text, re.DOTALL): whether it matches.
HasBraceSpan(raw) ==
    \E a, b \in 1..Len(raw) : a < b /\ raw[a] = LBrace /\ raw[b] = RBrace

\* match.group(): from the first "{" through the last "}" (greedy).
BraceSpan(raw) ==
    LET a == CHOOSE k \in 1..Len(raw) :
                 raw[k] = LBrace /\ \A m \in 1..(k - 1) : raw[m] # LBrace
        b == CHOOSE k \in 1..Len(raw) :
                 raw[k] = RBrace /\ \A m \in (k + 1)..Len(raw) : raw[m] # RBrace
    IN  SubSeq(raw, a, b)

\* Whether json.loads accepts the span: "{", members separated by commas, "}".
Decodes(span) ==
    LET inner == SubSeq(span, 2, Len(span) - 1)
    IN  \/ inner = <<>>
        \/ /\ Len(inner) % 2 = 1
           /\ \A k \in 1..Len(inner) :
                  IF k % 2 = 1 THEN inner[k].t = "member" ELSE inner[k] = Comma

\* The dict json.loads builds: a repeated key keeps its last value.
DecodedObject(span) ==
    LET inner == SubSeq(span, 2, Len(span) - 1)
        at(key) == CHOOSE k \in 1..Len(inner) :
                       /\ inner[k].t = "member" /\ inner[k].key = key
                       /\ \A m \in (k + 1)..Len(inner) :
                              ~(inner[m].t = "member" /\ inner[m].key = key)
    IN  [key \in {inner[k].key : k \in {m \in 1..Len(inner) : inner[m].t = "member"}}
            |-> inner[at(key)].value]

\* extract_json: the dict, or None after any exception.
ExtractJson(raw) ==
    IF ~HasBraceSpan(raw) THEN NoResult
    ELSE IF ~Decodes(BraceSpan(raw)) THEN NoResult
    ELSE [ok |-> TRUE, obj |-> DecodedObject(BraceSpan(raw))]

-----------------------------------------------------------------------------
(* parse_chunks_with_ollama                                                *)

\* The argument of sleep().
PacingDelay == 1

\* "if not result": None and the empty dict are both falsy.
IsFalsy(result) == ~result.ok \/ DOMAIN result.obj = {}

\* A length test on the untrimmed text.
IsShortTextUntrimmed(chunk) == Len(chunk.text) < ShortTextLimit

\* text = chunk["text"].strip(); len(text) < 50
IsShortText(chunk) == Len(Strip(chunk.text)) < ShortTextLimit

\* result["chunk_id"] = chunk["chunk_id"]; result["pages"] = chunk["pages"]
AttachChunk(obj, chunk) ==
    [key \in DOMAIN obj \cup {"chunk_id", "pages"} |->
        IF key = "chunk_id" THEN chunk.chunk_id
        ELSE IF key = "pages" THEN chunk.pages
        ELSE obj[key]]

\* An entry that names a fixed chunk id instead of the failed chunk's.
FailureEntryWrongChunk(chunk, e) == [chunk_id |-> 0, message |-> e]

\* f"Chunk {chunk['chunk_id']} failed: {e}\n\n": the values it interpolates.
FailureEntry(chunk, e) == [chunk_id |-> chunk.chunk_id, message |-> e]

\* One entry of the history: what happened, for which chunk, the oracle's
\* response (if it returned) and the time slept.
Event(kind, chunk, raw, n) ==
    [ev |-> kind, chunk_id |-> chunk.chunk_id, response |-> raw, units |-> n]

\* A loop that sleeps after every oracle call that returned.
TraceAfterBadResponseSleeping(tr, chunk, raw) ==
    tr \o <<Event("call_returned", chunk, raw, 0), Event("sleep", chunk, <<>>, PacingDelay)>>

\* The oracle returned and the parse raised: control is in the except block.
TraceAfterBadResponse(tr, chunk, raw) ==
    Append(tr, Event("call_returned", chunk, raw, 0))

\* The oracle returned, the record was appended, then sleep(1).
TraceAfterParsed(tr, chunk, raw) ==
    tr \o <<Event("call_returned", chunk, raw, 0), Event("sleep", chunk, <<>>, PacingDelay)>>

\* A loop that stops at the first failed chunk (break).
IndexAfterFailureAborting(k, n) == n

\* "continue" in the except block: on to the next chunk.
IndexAfterFailure(k, n) == k + 1

\* What ollama.chat can raise.
OracleErrors == {"connection refused"}

\* raise ValueError("Could not extract valid JSON")
NoJsonMessage == "Could not extract valid JSON"

\* What the oracle can answer.
Responses ==
    { <<>>,
      <<Noise>>,
      <<RBrace, LBrace>>,
      <<LBrace, RBrace>>,
      <<LBrace, Noise, RBrace>>,
      <<Noise, LBrace, Member("a", <<"1">>), RBrace, Noise>>,
      <<LBrace, Member("a", <<"1">>), RBrace, Noise, LBrace, Member("b", <<"2">>), RBrace>>,
      <<LBrace, Member("document_type", <<"B", "i", "l", "l">>), Comma,
        Member("suggested_filename", <<"a", " ", "b">>), RBrace>> }

\* Open chunks.json; parsed_chunks = [].
ParseLoad ==
    /\ pc = "parse_chunks_with_ollama"
    /\ chunks' = chunks_json
    /\ parsed_chunks' = <<>>
    /\ parse_k' = 0
    /\ pc' = "parse_loop"
    /\ UNCHANGED <<pages, i, chunk_id, chunks_json, failed_log, trace, parsed_json,
                   inputVars, ocrVars, splitVars>>

InParseLoop == pc = "parse_loop" /\ parse_k < Len(chunks)

\* if len(text) < 50: continue
ParseSkipShort ==
    /\ InParseLoop
    /\ IsShortText(chunks[parse_k + 1])
    /\ trace' = Append(trace, Event("skip", chunks[parse_k + 1], <<>>, 0))
    /\ parse_k' = parse_k + 1
    /\ UNCHANGED <<pc, parsed_chunks, failed_log, parsed_json, chunkVars,
                   inputVars, ocrVars, splitVars>>

\* ollama.chat raises: the except block logs the chunk and continues.
ParseOracleRaises ==
    /\ InParseLoop
    /\ ~IsShortText(chunks[parse_k + 1])
    /\ \E e \in OracleErrors :
           failed_log' = Append(failed_log, FailureEntry(chunks[parse_k + 1], e))
    /\ trace' = Append(trace, Event("call_raised", chunks[parse_k + 1], <<>>, 0))
    /\ parse_k' = IndexAfterFailure(parse_k, Len(chunks))
    /\ UNCHANGED <<pc, parsed_chunks, parsed_json, chunkVars, inputVars, ocrVars,
                   splitVars>>

\* ollama.chat returns and "if not result" raises ValueError.
ParseBadResponse ==
    /\ InParseLoop
    /\ ~IsShortText(chunks[parse_k + 1])
    /\ \E raw \in Responses :
           /\ IsFalsy(ExtractJson(raw))
           /\ trace' = TraceAfterBadResponse(trace, chunks[parse_k + 1], raw)
    /\ failed_log' = Append(failed_log, FailureEntry(chunks[parse_k + 1], NoJsonMessage))
    /\ parse_k' = IndexAfterFailure(parse_k, Len(chunks))
    /\ UNCHANGED <<pc, parsed_chunks, parsed_json, chunkVars, inputVars, ocrVars,
                   splitVars>>

\* ollama.chat returns a response extract_json turns into a non-empty dict.
ParseRecord ==
    /\ InParseLoop
    /\ ~IsShortText(chunks[parse_k + 1])
    /\ \E raw \in Responses :
           /\ ~IsFalsy(ExtractJson(raw))
           /\ parsed_chunks' =
                  Append(parsed_chunks, AttachChunk(ExtractJson(raw).obj, chunks[parse_k + 1]))
           /\ trace' = TraceAfterParsed(trace, chunks[parse_k + 1], raw)
    /\ parse_k' = parse_k + 1
    /\ UNCHANGED <<pc, failed_log, parsed_json, chunkVars, inputVars, ocrVars,
                   splitVars>>

\* The loop is over: json.dump(parsed_chunks) to parsed_chunks.json.
ParseFinish ==
    /\ pc = "parse_loop"
    /\ ~(parse_k < Len(chunks))
    /\ parsed_json' = parsed_chunks
    /\ pc' = "split_pdf_by_chunks"
    /\ UNCHANGED <<parse_k, parsed_chunks, failed_log, trace, chunkVars, inputVars,
                   ocrVars, splitVars>>

-----------------------------------------------------------------------------
(* split_pdf_by_chunks                                                     *)

\* The characters re.sub(r'[\\/*?:"<>|]', "", name) removes.
IllegalChars == {"\\", "/", "*", "?", ":", "\"", "<", ">", "|"}

RemoveIllegal(s) == SelectSeq(s, LAMBDA c : c \notin IllegalChars)

DefaultName == <<"d", "o", "c", "u", "m", "e", "n", "t">>
UnknownType == <<"u", "n", "k", "n", "o", "w", "n">>
PdfSuffix   == <<".", "p", "d", "f">>

\* sanitize_filename
SanitizeFilename(name) ==
    LET cleaned == RemoveIllegal(ReplaceSpaces(Strip(name)))
    IN  IF cleaned = <<>> THEN DefaultName ELSE cleaned

\* chunk.get(key) or default
GetOr(rec, key, default) ==
    IF key \in DOMAIN rec /\ rec[key] # <<>> THEN rec[key] ELSE default

\* The file name split_pdf_by_chunks derives for a record.
OutputName(rec) ==
    LET doc_type     == ReplaceSpaces(Lower(GetOr(rec, "document_type", UnknownType)))
        raw_filename == GetOr(rec, "suggested_filename",
                              doc_type \o <<"_">> \o DecimalOf(rec["chunk_id"]))
        filename     == SanitizeFilename(raw_filename)
    IN  IF EndsWith(filename, PdfSuffix) THEN filename ELSE filename \o PdfSuffix

\* The document new_doc holds after the insert_pdf loop.
NewDoc(rec) == [state |-> "pdf", pages |-> rec["pages"]]

\* What a save that failed part-way leaves under the path.
PartialFile == [state |-> "partial", pages |-> <<>>]

\* A save that leaves an existing file alone (no overwrite).
WriteFileKeepFirst(files, name, content) ==
    IF \E f \in files : f.name = name THEN files
    ELSE files \cup {[name |-> name, content |-> content]}

\* new_doc.save(output_path): the path now holds the new content.
WriteFile(files, name, content) ==
    {f \in files : f.name # name} \cup {[name |-> name, content |-> content]}

SaveEntry(rec, result) ==
    [chunk_id |-> rec["chunk_id"], name |-> OutputName(rec), outcome |-> result]

\* Open parsed_chunks.json and the source document.
SplitLoad ==
    /\ pc = "split_pdf_by_chunks"
    /\ parsed_chunks' = parsed_json
    /\ split_k' = 0
    /\ pc' = "split_loop"
    /\ UNCHANGED <<parse_k, failed_log, trace, parsed_json, out_files, save_log,
                   chunkVars, inputVars, ocrVars>>

InSplitLoop == pc = "split_loop" /\ split_k < Len(parsed_chunks)

\* new_doc.save succeeds.
SplitSaved ==
    /\ InSplitLoop
    /\ LET rec == parsed_chunks[split_k + 1]
       IN  /\ out_files' = WriteFile(out_files, OutputName(rec), NewDoc(rec))
           /\ save_log' = Append(save_log, SaveEntry(rec, "saved"))
    /\ split_k' = split_k + 1
    /\ UNCHANGED <<pc, parseVars, chunkVars, inputVars, ocrVars>>

\* new_doc.save raises before it touched the path: logged, the loop goes on.
SplitSaveFailsUntouched ==
    /\ InSplitLoop
    /\ save_log' = Append(save_log, SaveEntry(parsed_chunks[split_k + 1], "failed"))
    /\ split_k' = split_k + 1
    /\ UNCHANGED <<pc, out_files, parseVars, chunkVars, inputVars, ocrVars>>

\* new_doc.save raises after it began to write: logged, the loop goes on.
SplitSaveFailsPartial ==
    /\ InSplitLoop
    /\ LET rec == parsed_chunks[split_k + 1]
       IN  /\ out_files' = WriteFile(out_files, OutputName(rec), PartialFile)
           /\ save_log' = Append(save_log, SaveEntry(rec, "failed"))
    /\ split_k' = split_k + 1
    /\ UNCHANGED <<pc, parseVars, chunkVars, inputVars, ocrVars>>

\* The loop is over: doc.close().
SplitFinish ==
    /\ pc = "split_loop"
    /\ ~(split_k < Len(parsed_chunks))
    /\ pc' = "done"
    /\ UNCHANGED <<parseVars, splitVars, chunkVars, inputVars, ocrVars>>

-----------------------------------------------------------------------------
(* Inputs.                                                                 *)

\* What the OCR engine can return for a page, before .strip().
RawTexts ==
    { <<>>,
      Rep("x", 25),
      <<" ">> \o Rep("x", 49) \o <<"\n">>,
      Rep("x", 50) }

\* The texts of n page files, repeating a pattern of TextPeriod texts.
PeriodicTexts(pattern, n) == [k \in 1..n |-> pattern[((k - 1) % TextPeriod) + 1]]

TextPatterns == [1..TextPeriod -> RawTexts]

\* The state main() starts in, given the directory and the engine's answers.
Start(dir, raw) ==
    /\ pc = "perform_ocr"
    /\ image_dir = dir
    /\ ocr_raw = raw
    /\ page_files = <<>>
    /\ ocr_results = <<>>
    /\ ocr_json = <<>>
    /\ pages = <<>>
    /\ i = 0
    /\ chunk_id = 1
    /\ chunks = <<>>
    /\ chunks_json = <<>>
    /\ parse_k = 0
    /\ parsed_chunks = <<>>
    /\ failed_log = <<>>
    /\ trace = <<>>
    /\ parsed_json = <<>>
    /\ split_k = 0
    /\ out_files = {}
    /\ save_log = <<>>

\* The directory convert_pdf_to_images leaves for a document of n pages.
ImagesOf(n) == {ImageName(idx) : idx \in 0..(n - 1)}

\* Blank or not: the two texts the segmenter can tell apart.
BlankOrFull == { <<>>, Rep("x", 50) }

\* A scanned document of 0..MaxPages pages, numbered 1..N. The segmenter
\* reads the blank flag of the trailing pages only: those are blank or not
\* in every combination, the pages before them by a repeating pattern.
Init ==
    \E n \in 0..MaxPages, pattern \in [1..TextPeriod -> BlankOrFull] :
        \E tail \in [CertificateFirstPage..n -> BlankOrFull] :
            Start(ImagesOf(n),
                  [k \in 1..n |-> IF k >= CertificateFirstPage
                                  THEN tail[k]
                                  ELSE PeriodicTexts(pattern, n)[k]])

Next ==
    \/ OcrList
    \/ OcrStep
    \/ OcrFinish
    \/ ChunkLoad
    \/ ChunkInvoice
    \/ ChunkBol
    \/ ChunkCertificate
    \/ ChunkBlank
    \/ ChunkFinish

Spec == Init /\ [][Next]_vars

-----------------------------------------------------------------------------
(* SpecAny: any image directory. Stale or foreign files make page numbers   *)
(* repeat ("page_1.png" beside "page_001.png"), leave gaps, or be           *)
(* non-positive; "page_10.png" sorts before "page_2.png" as a string.       *)

NameOf(field) == PagePrefix \o field \o PngSuffix

FilePool ==
    { NameOf(<<"0", "0", "1">>),
      NameOf(<<"1">>),
      NameOf(<<"2">>),
      NameOf(<<"1", "0">>),
      NameOf(<<"0", "2", "3">>),
      NameOf(<<"0", "2", "4">>),
      NameOf(<<"0", "2", "5">>),
      NameOf(<<"0", "2", "6">>),
      NameOf(<<"0", "4", "0">>),
      NameOf(<<"0", "4", "1">>),
      NameOf(<<"-", "0", "1">>),
      NameOf(<<"0", "0", "0">>),
      PagePrefix \o <<"0", "0", "7", ".", "t", "x", "t">> }

InitAny ==
    \E dir \in SUBSET FilePool, pattern \in [1..TextPeriod -> BlankOrFull] :
        /\ Cardinality(dir) <= MaxFiles
        /\ Start(dir, PeriodicTexts(pattern, Cardinality(dir)))

SpecAny == InitAny /\ [][Next]_vars

-----------------------------------------------------------------------------
(* SpecParse: a few pages of every range, through the extraction loop.     *)

ParsePagePool == {1, 2, 3, 30, 40, 41}

InitParse ==
    \E ps \in SUBSET ParsePagePool, pattern \in TextPatterns :
        /\ Cardinality(ps) <= MaxParseFiles
        /\ Start({NameOf(Format03(p)) : p \in ps}, PeriodicTexts(pattern, Cardinality(ps)))

NextParse ==
    \/ Next
    \/ ParseLoad
    \/ ParseSkipShort
    \/ ParseOracleRaises
    \/ ParseBadResponse
    \/ ParseRecord
    \/ ParseFinish

SpecParse == InitParse /\ [][NextParse]_vars

-----------------------------------------------------------------------------
(* SpecSplit: the output partitioner, from a parsed_chunks.json the         *)
(* extraction loop can have written for the invoice groups of a document.  *)

\* The k-th invoice group of a document numbered 1..N.
InvoiceGroup(k) ==
    [chunk_id |-> k, pages |-> <<4 * k - 3, 4 * k - 2, 4 * k - 1>>]

\* Non-empty dicts the oracle's answer can decode to.
SplitObjects ==
    { [suggested_filename |-> <<"a", " ", "b">>],
      [suggested_filename |-> <<"a", "_", "b">>],
      [suggested_filename |-> <<" ", "a", "_", "b", ".", "p", "d", "f">>],
      [suggested_filename |-> <<"?", ":">>],
      [suggested_filename |-> DefaultName],
      [suggested_filename |-> <<"u", "n", "k", "n", "o", "w", "n", "_", "2">>],
      [document_type |-> <<"B", "i", "l", "l", " ", "A">>],
      [document_type |-> <<>>, suggested_filename |-> <<>>],
      [a |-> <<"1">>] }

InitSplit ==
    \E n \in 0..MaxRecords :
        \E objs \in [1..n -> SplitObjects] :
            /\ pc = "split_pdf_by_chunks"
            /\ image_dir = {}
            /\ page_files = <<>>
            /\ ocr_raw = <<>>
            /\ ocr_results = <<>>
            /\ ocr_json = <<>>
            /\ pages = <<>>
            /\ i = 0
            /\ chunk_id = 1
            /\ chunks = <<>>
            /\ chunks_json = <<>>
            /\ parse_k = 0
            /\ parsed_chunks = <<>>
            /\ failed_log = <<>>
            /\ trace = <<>>
            /\ parsed_json = [k \in 1..n |-> AttachChunk(objs[k], InvoiceGroup(k))]
            /\ split_k = 0
            /\ out_files = {}
            /\ save_log = <<>>

NextSplit ==
    \/ SplitLoad
    \/ SplitSaved
    \/ SplitSaveFailsUntouched
    \/ SplitSaveFailsPartial
    \/ SplitFinish

SpecSplit == InitSplit /\ [][NextSplit]_vars

-----------------------------------------------------------------------------
(* Properties of chunk_documents.                                          *)

Count(seq, Test(_)) == Len(SelectSeq(seq, Test))

SeqRange(seq) == {seq[k] : k \in 1..Len(seq)}

StrictlyIncreasing(seq) == \A k \in 1..(Len(seq) - 1) : seq[k] < seq[k + 1]

\* The page numbers perform_ocr wrote to ocr_pages.json.
InputPageNumbers == PageNumbers(ocr_json)

ChunkingStarted == pc \notin {"perform_ocr", "ocr_loop", "chunk_documents"}
ChunkingDone    == pc = "parse_chunks_with_ollama"

\* C1: on pages numbered 1..N, the chunks are pairwise disjoint in page
\* membership, each chunk's page list is non-empty and strictly increasing,
\* and every page of a chunk is a page of the input.
C1_ChunksDisjointOrderedFromInput ==
    /\ \A k \in 1..Len(chunks) :
           /\ chunks[k].pages # <<>>
           /\ StrictlyIncreasing(chunks[k].pages)
           /\ SeqRange(chunks[k].pages) \subseteq SeqRange(InputPageNumbers)
    /\ \A j, k \in 1..Len(chunks) :
           j # k => SeqRange(chunks[j].pages) \cap SeqRange(chunks[k].pages) = {}

\* A document of 42 pages numbered 1..42 was segmented into invoice groups,
\* bills of lading and a certificate, a blank trailing page being dropped.
C1_Witness ==
    /\ ChunkingDone
    /\ InputPageNumbers = [k \in 1..42 |-> k]
    /\ \E k \in 1..Len(chunks_json) : chunks_json[k].pages = <<21, 22, 23>>
    /\ \E k \in 1..Len(chunks_json) : chunks_json[k].type_hint = "bol"
    /\ \E k \in 1..Len(chunks_json) : chunks_json[k].type_hint = "certificate"
    /\ \E k \in 1..Len(pages) :
           /\ pages[k].page >= 39 /\ pages[k].is_blank
           /\ \A c \in 1..Len(chunks_json) : pages[k].page \notin SeqRange(chunks_json[c].pages)

\* C8: the chunk ids of the emitted chunks are 1, 2, ..., K in emission
\* order, and the counter is one past the number of chunks emitted: a page
\* that is dropped or skipped does not advance it.
C8_ChunkIdsSequential ==
    /\ \A k \in 1..Len(chunks) : chunks[k].chunk_id = k
    /\ pc = "chunk_loop" => chunk_id = Len(chunks) + 1

\* A blank trailing page was dropped and a later page still became a chunk.
C8_Witness ==
    /\ ChunkingDone
    /\ \E k \in 1..Len(pages), c \in 1..Len(chunks_json) :
           /\ pages[k].page >= 39 /\ pages[k].is_blank
           /\ chunks_json[c].type_hint = "certificate"
           /\ chunks_json[c].pages[1] > pages[k].page
           /\ c > 1

\* The input is a list of distinct positive page numbers.
InputDistinctPositive ==
    /\ \A k \in 1..Len(ocr_json) : ocr_json[k].page > 0
    /\ \A j, k \in 1..Len(ocr_json) : j # k => ocr_json[j].page # ocr_json[k].page

InvoiceChunks == {k \in 1..Len(chunks) : chunks[k].type_hint = "invoice"}

\* C10 as claimed: on distinct positive page numbers every invoice chunk has
\* at most 3 pages and only pages numbered <= 24.
C10_Original ==
    (ChunkingStarted /\ InputDistinctPositive) =>
        \A k \in InvoiceChunks :
            /\ Len(chunks[k].pages) <= 3
            /\ \A p \in SeqRange(chunks[k].pages) : p <= 24

\* C10 amended: on distinct positive page numbers every invoice chunk has at
\* most 3 pages, starts at a page numbered <= 24, and is the run of
\* consecutive entries of the sorted input from its first page; it has fewer
\* than 3 pages only when the input ends there (the window is not cut at 24).
C10_InvoiceWindowByIndex ==
    (ChunkingStarted /\ InputDistinctPositive) =>
        \A k \in InvoiceChunks :
            LET ps == chunks[k].pages
            IN  /\ Len(ps) >= 1 /\ Len(ps) <= 3
                /\ ps[1] <= 24
                /\ \E a \in 1..Len(pages) :
                       /\ a + Len(ps) - 1 <= Len(pages)
                       /\ ps = [m \in 1..Len(ps) |-> pages[a + m - 1].page]
                       /\ Len(ps) < 3 => a + Len(ps) - 1 = Len(pages)

\* The input 23, 24, 25 was segmented: the invoice chunk holds page 25.
C10_Witness ==
    /\ ChunkingDone
    /\ InputDistinctPositive
    /\ \E k \in 1..Len(chunks_json) :
           /\ chunks_json[k].type_hint = "invoice"
           /\ chunks_json[k].pages = <<23, 24, 25>>

\* The numbering of the OCR records is not exactly 1..N.
MalformedInput ==
    \/ \E k \in 1..Len(ocr_json) : ocr_json[k].page <= 0
    \/ \E j, k \in 1..Len(ocr_json) : j # k /\ ocr_json[j].page = ocr_json[k].page
    \/ \E n \in 1..Len(ocr_json) : n \notin SeqRange(InputPageNumbers)

\* C5 as claimed: with a missing, repeated or non-positive page number the
\* ingestion fails, so the segmenter never runs and no chunk is produced.
C5_Original ==
    MalformedInput => (~ChunkingStarted /\ chunks = <<>> /\ chunks_json = <<>>)

\* C5 amended: ingestion validates nothing. Whatever the numbering, the
\* segmenter runs on all the OCR records, sorted ascending by page number
\* with none rejected, and its cursor goes through the whole list.
C5_IngestionSortsWithoutValidating ==
    ChunkingStarted =>
        /\ Len(pages) = Len(ocr_json)
        /\ \A r \in SeqRange(ocr_json) :
               Count(pages, LAMBDA x : x = r) = Count(ocr_json, LAMBDA x : x = r)
        /\ \A k \in 1..(Len(pages) - 1) : pages[k].page <= pages[k + 1].page
        /\ ChunkingDone => i >= Len(pages)

\* A directory with a repeated, a non-positive and a missing page number was
\* segmented into chunks.
C5_Witness ==
    /\ ChunkingDone
    /\ chunks_json # <<>>
    /\ \E j, k \in 1..Len(ocr_json) : j < k /\ ocr_json[j].page = ocr_json[k].page
    /\ \E k \in 1..Len(ocr_json) : ocr_json[k].page <= 0
    /\ \E n \in 1..Len(ocr_json) : n \notin SeqRange(InputPageNumbers)

-----------------------------------------------------------------------------
(* Properties of parse_chunks_with_ollama.                                 *)

ParseStarted == pc \in {"parse_loop", "split_pdf_by_chunks"}
ParseDone    == pc = "split_pdf_by_chunks"

\* The chunks examined so far, one history entry each, in order.
Examined == SelectSeq(trace, LAMBDA e : e.ev # "sleep")

RecordsOf(id) == Count(parsed_chunks, LAMBDA r : r["chunk_id"] = id)
EntriesOf(id) == Count(failed_log, LAMBDA e : e.chunk_id = id)
CallsOf(id) ==
    Count(trace, LAMBDA e : e.chunk_id = id /\ e.ev \in {"call_raised", "call_returned"})

\* The response has no "{" ... "}" span, or the span is not valid JSON.
Unparseable(raw) == ~HasBraceSpan(raw) \/ ~Decodes(BraceSpan(raw))

\* The chunk failed at the oracle stage or at the parse stage.
FailedAtOracleOrParse(e) ==
    \/ e.ev = "call_raised"
    \/ e.ev = "call_returned" /\ Unparseable(e.response)

\* C2: every chunk is examined exactly once, in chunk order; a chunk that
\* fails at the oracle or parse stage adds exactly one failure-log entry and
\* no record; the loop still goes through every later chunk and ends with
\* the records of the successful chunks, in chunk order.
C2_FailureNeverAbortsRun ==
    ParseStarted =>
        /\ Len(Examined) = parse_k
        /\ parse_k <= Len(chunks)
        /\ \A k \in 1..Len(Examined) :
               /\ Examined[k].chunk_id = chunks[k].chunk_id
               /\ FailedAtOracleOrParse(Examined[k]) =>
                      /\ EntriesOf(Examined[k].chunk_id) = 1
                      /\ RecordsOf(Examined[k].chunk_id) = 0
        /\ ParseDone =>
               /\ Len(Examined) = Len(chunks)
               /\ parsed_json = parsed_chunks
               /\ StrictlyIncreasing([k \in 1..Len(parsed_json) |-> parsed_json[k]["chunk_id"]])
               /\ \A k \in 1..Len(parsed_json) :
                      \E e \in SeqRange(trace) :
                          e.ev = "call_returned" /\ e.chunk_id = parsed_json[k]["chunk_id"]

\* The first chunk failed and the next one still produced a record.
C2_Witness ==
    /\ ParseDone
    /\ Len(chunks) = 2
    /\ FailedAtOracleOrParse(Examined[1])
    /\ Len(failed_log) = 1
    /\ Len(parsed_json) = 1
    /\ parsed_json[1]["chunk_id"] = 2

TrimmedLength(text) == Len(Strip(text))

\* C3: a chunk whose trimmed text is shorter than 50 characters gets no
\* oracle call, no record and no failure-log entry; a chunk whose trimmed
\* text has 50 or more characters gets exactly one oracle call.
C3_ShortChunkSkippedSilently ==
    ParseStarted =>
        \A k \in 1..parse_k :
            IF TrimmedLength(chunks[k].text) < 50
            THEN /\ CallsOf(chunks[k].chunk_id) = 0
                 /\ RecordsOf(chunks[k].chunk_id) = 0
                 /\ EntriesOf(chunks[k].chunk_id) = 0
            ELSE CallsOf(chunks[k].chunk_id) = 1

\* An invoice chunk whose joined text has 50 characters and trims to 49 was
\* skipped: no call, no record, no failure-log entry.
C3_Witness ==
    /\ ParseStarted
    /\ \E k \in 1..parse_k :
           /\ Len(chunks[k].text) >= 50
           /\ TrimmedLength(chunks[k].text) < 50
           /\ Examined[k].ev = "skip"
           /\ parsed_chunks = <<>> /\ failed_log = <<>>

\* The chunk's response gave a record and no failure-log entry.
YieldedRecord(id) == RecordsOf(id) = 1 /\ EntriesOf(id) = 0

\* C4 as claimed: the parse of a response fails exactly when the response
\* has no brace span or the span does not decode; a response whose span
\* decodes to an object, the empty object included, yields a record and no
\* failure-log entry.
C4_Original ==
    ParseStarted =>
        \A e \in SeqRange(trace) :
            e.ev = "call_returned" =>
                IF Unparseable(e.response)
                THEN RecordsOf(e.chunk_id) = 0 /\ EntriesOf(e.chunk_id) = 1
                ELSE YieldedRecord(e.chunk_id)

\* C6 as claimed: a sleep of 1 follows every oracle call that returned, and
\* no sleep follows a skipped chunk or a call that raised.
C6_Original ==
    \A k \in 1..Len(trace) :
        /\ trace[k].ev = "call_returned" =>
               k < Len(trace) /\ trace[k + 1].ev = "sleep" /\ trace[k + 1].units = 1
        /\ trace[k].ev \in {"skip", "call_raised"} =>
               ~(k < Len(trace) /\ trace[k + 1].ev = "sleep")

\* C6 amended: a sleep of 1 follows an oracle call exactly when the call
\* returned and its response gave a record; no sleep follows a skipped
\* chunk, a call that raised, or a call whose response gave no record.
C6_SleepOnlyAfterRecord ==
    \A k \in 1..Len(trace) :
        /\ trace[k].ev = "call_returned" =>
               ((k < Len(trace) /\ trace[k + 1].ev = "sleep")
                    <=> RecordsOf(trace[k].chunk_id) = 1)
        /\ trace[k].ev \in {"skip", "call_raised"} =>
               ~(k < Len(trace) /\ trace[k + 1].ev = "sleep")
        /\ trace[k].ev = "sleep" =>
               /\ trace[k].units = 1
               /\ k > 1 /\ trace[k - 1].ev = "call_returned"
               /\ trace[k - 1].chunk_id = trace[k].chunk_id

\* One call returned an undecodable response and was followed at once by the
\* next chunk's call, which gave a record and was followed by the sleep.
C6_Witness ==
    /\ Len(trace) = 3
    /\ trace[1].ev = "call_returned" /\ Unparseable(trace[1].response)
    /\ trace[2].ev = "call_returned" /\ RecordsOf(trace[2].chunk_id) = 1
    /\ trace[3].ev = "sleep"

\* The entries of the history that end in the except block.
Failures ==
    SelectSeq(trace, LAMBDA e :
        \/ e.ev = "call_raised"
        \/ e.ev = "call_returned" /\ RecordsOf(e.chunk_id) = 0)

PagesOfChunk(id) == (CHOOSE c \in SeqRange(chunks) : c.chunk_id = id).pages

\* C9 as claimed: every failure-log entry carries the chunk id, the chunk's
\* page list and the error message.
C9_Original ==
    \A k \in 1..Len(failed_log) :
        /\ {"chunk_id", "pages", "message"} \subseteq DOMAIN failed_log[k]
        /\ failed_log[k].pages = PagesOfChunk(failed_log[k].chunk_id)

\* C9 amended: every failure-log entry carries the failed chunk's id and the
\* error message, and nothing else: the page list is not written.
C9_EntryHasIdAndMessageOnly ==
    /\ Len(failed_log) = Len(Failures)
    /\ \A k \in 1..Len(failed_log) :
           /\ DOMAIN failed_log[k] = {"chunk_id", "message"}
           /\ failed_log[k].chunk_id = Failures[k].chunk_id
           /\ failed_log[k].message =
                  IF Failures[k].ev = "call_raised"
                  THEN "connection refused"
                  ELSE "Could not extract valid JSON"

\* The two chunks of a run both failed, one at the oracle and one at the
\* parse, and the log holds an entry for each.
C9_Witness ==
    /\ ParseDone
    /\ Len(failed_log) = 2
    /\ failed_log[1].chunk_id = 1 /\ failed_log[1].message = "Could not extract valid JSON"
    /\ failed_log[2].chunk_id = 2 /\ failed_log[2].message = "connection refused"
    /\ chunks[1].pages # <<>>

-----------------------------------------------------------------------------
(* Properties of split_pdf_by_chunks.                                      *)

SplitDone == pc = "done"

\* The records that derive the given file name.
RecordsNamed(name) == {k \in 1..Len(parsed_json) : OutputName(parsed_json[k]) = name}

LastNamed(name) == CHOOSE k \in RecordsNamed(name) : \A j \in RecordsNamed(name) : j <= k

CollidingNames ==
    {OutputName(parsed_json[k]) : k \in 1..Len(parsed_json)} \cap
    {name \in {OutputName(parsed_json[k]) : k \in 1..Len(parsed_json)} :
         Cardinality(RecordsNamed(name)) >= 2}

FilesNamed(name) == {f \in out_files : f.name = name}

HoldsPagesOf(name, k) ==
    FilesNamed(name) = {[name |-> name, content |-> [state |-> "pdf", pages |-> parsed_json[k]["pages"]]]}

\* C7 as claimed: when two records derive the same file name, after the run
\* exactly one file has that name and it holds the later record's pages,
\* whatever the outcomes of the saves.
C7_Original ==
    SplitDone => \A name \in CollidingNames : HoldsPagesOf(name, LastNamed(name))

\* C7 amended: when two records derive the same file name, at most one file
\* has that name, and after the run it holds the later record's pages
\* exactly when the later record's save succeeded.
C7_LastSuccessfulWriteWins ==
    /\ \A f, g \in out_files : f.name = g.name => f = g
    /\ SplitDone =>
           \A name \in CollidingNames :
               HoldsPagesOf(name, LastNamed(name))
                   <=> save_log[LastNamed(name)].outcome = "saved"

\* Two records derived the same name from different suggestions, both saves
\* succeeded, and the one file holds the second record's pages.
C7_Witness ==
    /\ SplitDone
    /\ Len(parsed_json) = 2
    /\ "suggested_filename" \in DOMAIN parsed_json[1] \cap DOMAIN parsed_json[2]
    /\ parsed_json[1]["suggested_filename"] # parsed_json[2]["suggested_filename"]
    /\ OutputName(parsed_json[1]) = OutputName(parsed_json[2])
    /\ save_log[1].outcome = "saved" /\ save_log[2].outcome = "saved"
    /\ out_files = {[name |-> OutputName(parsed_json[2]),
                     content |-> [state |-> "pdf", pages |-> <<5, 6, 7>>]]}

=============================================================================
